---- MODULE Spec2Model ----
(***************************************************************************)
(* Model of the Yellow Pages lead scrapers: yp_5_janitor.py,               *)
(* yp_b2b_warehouse_scraper.py and yp_6_safety.py.  The three files are    *)
(* near-duplicate pipelines; the variable `variant` selects which file a   *)
(* behaviour follows.  Strings are TLA+ strings, page content and          *)
(* spreadsheet rows are sequences and functions over them.                 *)
(***************************************************************************)
EXTENDS Integers, Sequences, FiniteSets, TLC

VARIABLES
  variant,          \* "janitor" | "b2b" | "safety": the pipeline file that runs
  env,              \* which family of directory-site content the run meets
  files,            \* OUTPUT_DIR: file name -> rows of the .xlsx (cells as written)
  pc,               \* position of the process: "idle" | "load" | "fetch" | "persist"
  location_index,   \* index of the task's location in LOCATIONS (0: no task)
  output_file,      \* scrape_search: output_file / scrape: outfile
  existing_ids,     \* scrape_search parameter existing_ids (global scope)
  all_leads,        \* scrape_search: all_leads / scrape: leads
  local_ids,        \* scrape_search: local_ids
  new_listings,     \* scrape_search: new_listings / scrape: new_lst
  idx,              \* position of the email loop in new_listings (1-based)
  page,             \* loop variable page / pg
  blocked_count,    \* scrape_search: blocked_count / scrape: blocks
  new_leads_count,  \* scrape_search: new_leads_count / scrape: new_ct
  driver,           \* the session the local `driver` refers to: <<run, n>>
  live,             \* the sessions created and not yet quit
  created,          \* number of sessions the current run has created
  held,             \* result fragments the current session still displays
  runs,             \* number of task runs started
  faults,           \* failed navigations the current run has met
  obs,              \* what the last step did (history, for stating properties)
  em,               \* input and result of one call of a function (SpecEmail, SpecFn)
  calls,            \* number of calls of the merge and export utilities made
  sched             \* the run mode in progress: tasks started, progress file (SpecSched)

vars == <<variant, env, files, pc, location_index, output_file, existing_ids, all_leads,
          local_ids, new_listings, idx, page, blocked_count, new_leads_count,
          driver, live, created, held, runs, faults, obs, em, calls, sched>>

----------------------------------------------------------------------------
(* Bounds of the model *)

MaxRuns == 2          \* task runs per behaviour
MaxListings == 2      \* result fragments on one page (env "dedup")
MaxDedupPages == 2    \* result pages that list a business (env "dedup")
MaxNavFailures == 1   \* result pages of one run whose navigation fails for good
MaxBlockPages == 4    \* result pages that list a business (env "blocks")
MaxMergePages == 1    \* result pages that list a business (env "merge")
MaxUtilityCalls == 2  \* calls of merge_all_files and of the export (env "merge")
MaxPrograms == 2      \* runs of the program, each in one run mode (SpecSched)

Variants == {"janitor", "b2b", "safety"}

----------------------------------------------------------------------------
(* Strings *)

UpperChars == "ABCDEFGHIJKLMNOPQRSTUVWXYZ"
LowerChars == "abcdefghijklmnopqrstuvwxyz"
Digits == "0123456789"

Char(s, i) == SubSeq(s, i, i)

\* `p in s` of Python for strings
Contains(p, s) ==
  \E i \in 1..(Len(s) - Len(p) + 1) : SubSeq(s, i, i + Len(p) - 1) = p

StartsWith(s, p) == Len(s) >= Len(p) /\ SubSeq(s, 1, Len(p)) = p

EndsWith(s, p) == Len(s) >= Len(p) /\ SubSeq(s, Len(s) - Len(p) + 1, Len(s)) = p

LowerChar(c) ==
  IF \E i \in 1..26 : Char(UpperChars, i) = c
  THEN Char(LowerChars, CHOOSE i \in 1..26 : Char(UpperChars, i) = c)
  ELSE c

RECURSIVE Lower(_)
Lower(s) == IF s = "" THEN "" ELSE LowerChar(Char(s, 1)) \o Lower(SubSeq(s, 2, Len(s)))

IsSpace(c) == c \in {" ", "\t", "\n"}

RECURSIVE LStrip(_)
LStrip(s) == IF s # "" /\ IsSpace(Char(s, 1)) THEN LStrip(SubSeq(s, 2, Len(s))) ELSE s

RECURSIVE RStrip(_)
RStrip(s) == IF s # "" /\ IsSpace(Char(s, Len(s))) THEN RStrip(SubSeq(s, 1, Len(s) - 1)) ELSE s

Strip(s) == RStrip(LStrip(s))

\* The float NaN that pandas.read_excel returns for an empty cell.
NaN == "<float nan>"

\* str(x): the text of a cell value; str(float('nan')) is 'nan'
Str(x) == IF x = NaN THEN "nan" ELSE x

\* x.strip() / x.lower() raise AttributeError on a float
RaisesOnStr(x) == x = NaN

----------------------------------------------------------------------------
(* Website filter *)

INVALID_WEBSITE_PATTERNS ==
  <<"localsearch.com", "yellowpages.com", "yp.com", "superpages.com",
    "whitepages.com", "manta.com", "yelp.com">>

AnyIn(patterns, s) == \E k \in 1..Len(patterns) : Contains(patterns[k], s)

\* the test on the lowercase form is left out
is_valid_email_cased(v, email) == email # "" /\ Contains("@", email)

\* the name is not put in lower case
generate_lead_id_cased(company_name, phone) ==
  <<"md5", Strip(company_name) \o "|" \o Strip(phone)>>

\* is_valid_website of yp_5_janitor.py and yp_6_safety.py (the latter has no
\* "N/A" test).  yp_b2b_warehouse_scraper.py has no such function.
is_valid_website(v, url) ==
  IF url = "" \/ Strip(url) = "" \/ (v = "janitor" /\ url = "N/A")
  THEN FALSE
  ELSE ~AnyIn(INVALID_WEBSITE_PATTERNS, Strip(Lower(url)))

\* a function as an explicit table of its values (@@ builds the value eagerly)
Table(f) == f @@ <<>>

\* is_valid_website, its values on the addresses the directory lists computed once
ListedWebs == {"acme.io", "bolt.io", "https://www.Yelp.com/biz/cord", "biz.io", "dyer.io"}
ValidWebsites ==
  Table([v \in {"janitor", "safety"} |->
           Table([u \in ListedWebs |-> is_valid_website(v, u)])])
ValidWebsite(v, url) ==
  IF url \in ListedWebs THEN ValidWebsites[v][url] ELSE is_valid_website(v, url)

\* the Website Filter of the specification (the "N/A" sentinel included)
WebsiteFilter(url) == ValidWebsite("janitor", url)

----------------------------------------------------------------------------
(* Identity *)

\* hashlib.md5(key).hexdigest()[:12]; the digest is modelled collision-free
md5_12(key) == <<"md5", key>>

\* generate_lead_id / gen_id on values that are strings (or str()-wrapped)
generate_lead_id(company_name, phone) ==
  md5_12(Strip(Lower(Str(company_name))) \o "|" \o Strip(Str(phone)))

----------------------------------------------------------------------------
(* Columns of a lead dict / spreadsheet row.  Only the columns the pipeline
   reads back or rewrites are modelled. *)

NameCol == "Company Name"
PhoneCol(v) == IF v = "safety" THEN "Phone" ELSE "Phone Number"
WebCol(v) == IF v = "safety" THEN "Website" ELSE "Website URL"
EmailCol(v) == IF v = "safety" THEN "Email" ELSE "Email Address"
IdCol(v) == IF v = "safety" THEN "_id" ELSE "_lead_id"
\* the constrained-choice column and the default add_checkboxes gives it
CheckCol(v) == IF v = "b2b" THEN "Called" ELSE "Status"
CheckDefault(v) == IF v = "b2b" THEN "[ ]" ELSE "Not Contacted"

\* dict.get / Series.get with a default
Get(row, col, default) == IF col \in DOMAIN row THEN row[col] ELSE default

\* k.startswith("_")
IsInternal(col) == StartsWith(col, "_")

----------------------------------------------------------------------------
(* Listing parser *)

\* A result fragment is the text of its .business-name, .phones and the href
\* of its .track-visit-website element ("" when the element is missing).

\* parse_listing returns None
parse_rejects(v, raw) ==
  \/ Strip(raw.name) = ""
  \/ v # "b2b" /\ ~is_valid_website(v, raw.web)

\* the dict parse_listing returns otherwise
parse_listing(v, raw) ==
  LET company == Strip(raw.name)
      phone == Strip(raw.phone)
  IN  ("#" :> 0) @@ (NameCol :> company) @@ (EmailCol(v) :> "")
      @@ (PhoneCol(v) :> phone) @@ (WebCol(v) :> raw.web)
      @@ ("Notes" :> "") @@ (CheckCol(v) :> "")
      @@ (IdCol(v) :> generate_lead_id(company, phone))

\* what one result fragment adds to page_data: nothing, or its parsed dict
page_data_of(v, raw) ==
  IF parse_rejects(v, raw) THEN <<>> ELSE <<parse_listing(v, raw)>>

----------------------------------------------------------------------------
(* Spreadsheet codec: DataFrame.to_excel followed by pandas.read_excel *)

\* to_excel writes NaN and "" as an empty cell
ToCell(x) == IF x = NaN THEN "" ELSE x
\* read_excel returns NaN for an empty cell
FromCell(c) == IF c = "" THEN NaN ELSE c

\* df.to_dict('records') of pd.read_excel(path)
read_excel(rows) ==
  [k \in 1..Len(rows) |->
     [c \in DOMAIN rows[k] |-> IF c = "#" THEN rows[k][c] ELSE FromCell(rows[k][c])]]

\* add_checkboxes: unset cells of the constrained-choice column get the default
add_checkboxes(v, rows) ==
  [k \in 1..Len(rows) |->
     [c \in DOMAIN rows[k] |->
        IF c = CheckCol(v) /\ rows[k][c] = "" THEN CheckDefault(v) ELSE rows[k][c]]]

SelectValid(v, leads) ==
  SelectSeq(leads, LAMBDA l : ValidWebsite(v, Get(l, WebCol(v), "")))

\* the rows save_leads_to_excel / save_xlsx writes for `leads`
clean_leads(v, leads) ==
  LET kept == IF v = "b2b" THEN leads ELSE SelectValid(v, leads)
  IN  add_checkboxes(v,
        [k \in 1..Len(kept) |->
           [c \in {d \in DOMAIN kept[k] : ~IsInternal(d)} |->
              IF c = "#" THEN k ELSE ToCell(kept[k][c])]])

\* save_leads_to_excel / save_xlsx: the directory after the call
save_leads_to_excel(v, leads, path, dir) ==
  LET clean == clean_leads(v, leads)
  IN  IF leads = <<>> \/ clean = <<>> THEN dir ELSE (path :> clean) @@ dir

----------------------------------------------------------------------------
(* Dedup store: the global scope *)

\* load_existing_leads of yp_b2b_warehouse_scraper.py calls .lower()/.strip()
\* on the raw cell, which raises on NaN; the bare except returns set()
LoadRaises(v, recs) ==
  /\ v = "b2b"
  /\ \E k \in 1..Len(recs) :
       \/ NameCol \notin DOMAIN recs[k]
       \/ RaisesOnStr(recs[k][NameCol])
       \/ RaisesOnStr(Get(recs[k], "Phone Number", ""))

\* load_existing_leads(filepath) / the body of the loop of load_all_ids.
\* All three read the column "Phone Number".
load_existing_leads(v, rows) ==
  LET recs == read_excel(rows)
  IN  IF LoadRaises(v, recs) THEN {}
      ELSE { generate_lead_id(Get(recs[k], NameCol, ""), Get(recs[k], "Phone Number", "")) :
               k \in 1..Len(recs) }

\* the files load_all_existing_lead_ids / load_all_ids reads: os.listdir, and
\* filename.endswith(".xlsx")
listed_xlsx(dir) == { f \in DOMAIN dir : EndsWith(f, ".xlsx") }

\* load_all_existing_lead_ids / load_all_ids: every .xlsx of OUTPUT_DIR
load_all_existing_lead_ids(v, dir) ==
  UNION { load_existing_leads(v, dir[f]) : f \in listed_xlsx(dir) }

----------------------------------------------------------------------------
(* Email validator *)

EMAIL_BLACKLIST(v) ==
  IF v = "safety"
  THEN <<"example.com", "domain.com", "sentry.io", "schema.org", "wixpress",
         "googleapis", "yellowpages", ".png", ".jpg", ".css", ".js">>
  ELSE <<"example.com", "domain.com", "email.com", "yoursite", "yourdomain",
         "sentry.io", "schema.org", "json", "wixpress", "wix.com",
         "googleapis", "google.com", "facebook", "twitter", "instagram",
         ".png", ".jpg", ".gif", ".svg", ".css", ".js",
         "yellowpages", "yp.com", "placeholder", "test.com",
         "wordpress", "squarespace", "shopify", "godaddy">>
       \o (IF v = "janitor" THEN <<"wufoo">> ELSE <<>>)

\* is_valid_email / valid_email
is_valid_email(v, email) ==
  IF email = "" \/ ~Contains("@", email)
  THEN FALSE
  ELSE ~AnyIn(EMAIL_BLACKLIST(v), Lower(email))

----------------------------------------------------------------------------
(* Rendered pages, as the email cascade sees them.
   A page is [get, title, text, items]: get is "ok" or "raises" (driver.get
   throws), text is the free text of the markup, items are the addresses the
   markup carries in document order, each [kind, addr, cls]: kind "mailto"
   for <a href="mailto:addr">, "text" for an address in running text; cls
   tells whether the anchor's class contains "email". *)

AllIn(s, cls) == \A i \in 1..Len(s) : Contains(Char(s, i), cls)


\* the token matches [a-zA-Z0-9._%+-]+@[a-zA-Z0-9.-]+\.[a-zA-Z]{2,}
MatchesEmailRegex(a) ==
  \E at \in 2..(Len(a) - 4) :
    /\ Char(a, at) = "@"
    /\ AllIn(SubSeq(a, 1, at - 1), LowerChars \o UpperChars \o Digits \o "._%+-")
    /\ \E dot \in (at + 2)..(Len(a) - 2) :
         /\ Char(a, dot) = "."
         /\ AllIn(SubSeq(a, at + 1, dot - 1), LowerChars \o UpperChars \o Digits \o ".-")
         /\ AllIn(SubSeq(a, dot + 1, Len(a)), LowerChars \o UpperChars)

RECURSIVE ItemsText(_)
ItemsText(items) ==
  IF items = <<>> THEN "" ELSE " " \o Head(items).addr \o ItemsText(Tail(items))

\* driver.page_source, as far as the text heuristics can tell
page_source(p) == p.text \o ItemsText(p.items)

\* the block heuristic of extract_email_from_detail / get_email
is_blocked(v, p) ==
  LET src == Lower(page_source(p))
  IN  \/ Contains(IF v = "safety" THEN "blocked" ELSE "you have been blocked", src)
      \/ Contains("cloudflare", src) /\ Contains("ray id", src)

\* the first address, whatever it is
first_address(v, addrs) == IF addrs = <<>> THEN "" ELSE Head(addrs)

\* first element of a sequence of addresses that passes the validator, or ""
RECURSIVE FirstValid(_, _)
FirstValid(v, addrs) ==
  IF addrs = <<>> THEN ""
  ELSE IF is_valid_email(v, Head(addrs)) THEN Head(addrs)
  ELSE FirstValid(v, Tail(addrs))

Addrs(items) == [k \in 1..Len(items) |-> Strip(items[k].addr)]
Mailtos(items) == SelectSeq(items, LAMBDA it : it.kind = "mailto")
EmailClassMailtos(items) == SelectSeq(items, LAMBDA it : it.kind = "mailto" /\ it.cls)
RegexTokens(items) == SelectSeq(Addrs(items), MatchesEmailRegex)

\* re.search(r'href=["\']mailto:...') : only the first mailto link is looked at
MailtoInSource(v, items) ==
  IF Mailtos(items) = <<>> THEN ""
  ELSE FirstValid(v, <<Addrs(Mailtos(items))[1]>>)

\* Method 1 then the regex scan: the two steps run on website pages, and on
\* the detail page in yp_6_safety.py
ScanSource(v, items) ==
  IF MailtoInSource(v, items) # "" THEN MailtoInSource(v, items)
  ELSE FirstValid(v, RegexTokens(items))

\* Methods 1-5 of extract_email_from_detail (janitor, b2b)
ScanDetail(v, items) ==
  IF MailtoInSource(v, items) # "" THEN MailtoInSource(v, items)
  ELSE IF FirstValid(v, Addrs(EmailClassMailtos(items))) # ""
       THEN FirstValid(v, Addrs(EmailClassMailtos(items)))
  ELSE IF FirstValid(v, Addrs(Mailtos(items))) # ""
       THEN FirstValid(v, Addrs(Mailtos(items)))
  ELSE FirstValid(v, RegexTokens(items))

TitleMarkers == <<"404", "not found", "error", "denied">>

ContactPaths(v) ==
  IF v = "safety" THEN <<"/contact", "/contact-us", "/about">>
  ELSE <<"/contact", "/contact-us", "/about", "/about-us", "/contactus">>

\* the loop over contact_paths, from path number k on
RECURSIVE ScanContactPages(_, _, _)
ScanContactPages(v, site, k) ==
  IF k > Len(ContactPaths(v)) THEN ""
  ELSE LET p == site.contact[k]
       IN  IF p.get = "ok" /\ ScanSource(v, p.items) # "" THEN ScanSource(v, p.items)
           ELSE ScanContactPages(v, site, k + 1)

\* extract_email_from_website / get_email_from_site; site.root is the page at
\* the site's root, site.contact the pages at the contact paths
extract_email_from_website(v, website_url, site) ==
  IF website_url = ""
     \/ (v = "b2b" /\ website_url = "N/A")
     \/ (v # "b2b" /\ ~is_valid_website(v, website_url))
  THEN ""
  ELSE IF site.root.get # "ok" THEN ""
  ELSE IF v # "safety" /\ AnyIn(TitleMarkers, Lower(site.root.title)) THEN ""
  ELSE IF ScanSource(v, site.root.items) # "" THEN ScanSource(v, site.root.items)
  ELSE ScanContactPages(v, site, 1)

BLOCKED == "__BLOCKED__"

\* the company website is tried as a substitute source
TriesWebsite(v, website_url) ==
  website_url # "" /\ (v = "b2b" \/ is_valid_website(v, website_url))

\* a blocked detail page gives the sentinel at once
extract_email_no_fallback(v, detail, website_url, site) ==
  IF detail.get # "ok" THEN ""
  ELSE IF is_blocked(v, detail) THEN BLOCKED
  ELSE IF v = "safety" THEN ScanSource(v, detail.items)
  ELSE ScanDetail(v, detail.items)

\* extract_email_from_detail / get_email
extract_email_from_detail(v, detail, website_url, site) ==
  LET fromSite == extract_email_from_website(v, website_url, site)
      onPage == IF v = "safety" THEN ScanSource(v, detail.items)
                ELSE ScanDetail(v, detail.items)
  IN  IF detail.get # "ok" THEN ""
      ELSE IF is_blocked(v, detail)
           THEN IF TriesWebsite(v, website_url)
                THEN IF v = "safety" \/ fromSite # "" THEN fromSite ELSE BLOCKED
                ELSE BLOCKED
      ELSE IF onPage # "" THEN onPage
      ELSE IF TriesWebsite(v, website_url) THEN fromSite
      ELSE ""

----------------------------------------------------------------------------
(* Configuration *)

\* the head of each file's catalog of search terms and of locations
SEARCH_TERMS(v) ==
  IF v = "janitor" THEN <<"janitorial-supplies", "janitorial-equipment-supplies">>
  ELSE IF v = "b2b" THEN <<"wholesale", "wholesalers">>
  ELSE <<"safety-equipment-supplies", "industrial-safety-equipment">>
LOCATIONS == <<"queens-ny", "brooklyn-ny">>

START_PAGE == 1
MAX_PAGES(v) == IF v = "b2b" THEN 10 ELSE 5
RESTART_DRIVER_EACH_PAGE == TRUE
MAX_RETRIES == 3
\* the literal 5 of `if blocked_count >= 5`
BlockThreshold == 5

\* the address of every page: a page number, although page 1 has none
task_url_numbered(search_term, location, p) ==
  "https://www.yellowpages.com/" \o location \o "/" \o search_term
    \o "?page=" \o ToString(p)

\* base_url and `url = base_url if page == 1 else f"{base_url}?page={page}"`
task_url(search_term, location, p) ==
  LET base_url == "https://www.yellowpages.com/" \o location \o "/" \o search_term
  IN  IF p = 1 THEN base_url ELSE base_url \o "?page=" \o ToString(p)

\* get_output_filename, relative to OUTPUT_DIR
get_output_filename(v, search_term, location) ==
  "yp_" \o v \o "_" \o location \o "_" \o search_term \o ".xlsx"

----------------------------------------------------------------------------
(* The directory site and the company websites, as the runs meet them *)

\* env "dedup": few businesses, listed again and again.  The directory
\* spells the first one differently in the results of the two locations.
Acme(li) ==
  [name |-> IF li = 1 THEN "Acme" ELSE " ACME ", phone |-> "555", web |-> "acme.io"]
Bolt == [name |-> "Bolt", phone |-> "", web |-> "bolt.io"]
Cord == [name |-> "Cord", phone |-> "556", web |-> "https://www.Yelp.com/biz/cord"]
Dyer == [name |-> "Dyer", phone |-> "557", web |-> "dyer.io"]
DedupRaws(li) == { Acme(li), Bolt, Cord }

\* env "blocks": every result page lists one or two businesses seen nowhere else
BlockRaw(p, s) ==
  [name |-> "Biz" \o <<"1", "2", "3", "4", "5", "6", "7", "8", "9", "10", "11">>[p] \o s,
   phone |-> "555", web |-> "biz.io"]

SeqsUpTo(S, n) == UNION { [1..k -> S] : k \in 0..n }

\* three listings in any order
Perms(a, b, c) ==
  { <<a, b, c>>, <<a, c, b>>, <<b, a, c>>, <<b, c, a>>, <<c, a, b>>, <<c, b, a>> }

Envs == {"dedup", "blocks", "repeat", "scenario", "merge"}

\* envs "blocks" and "repeat" follow a single run
RunBudget(e) ==
  CASE e \in {"blocks", "repeat"} -> 1
    [] e = "sched" -> MaxPrograms * Len(SEARCH_TERMS("janitor")) * Len(LOCATIONS)
    [] OTHER -> MaxRuns

\* what page p of the results for location li may show
PageContents(e, li, p) ==
  CASE e = "dedup" ->
         IF p \in 1..MaxDedupPages THEN SeqsUpTo(DedupRaws(li), MaxListings) ELSE { <<>> }
    [] e = "blocks" ->
         IF p \in 1..MaxBlockPages
         THEN { <<>>, <<BlockRaw(p, "a")>>, <<BlockRaw(p, "a"), BlockRaw(p, "b")>> }
         ELSE { <<>> }
    [] e = "repeat" ->       \* the directory ignores the page number
         IF p \in 1..10 THEN { <<>>, <<Acme(li)>> } ELSE { <<>> }
    [] e = "scenario" ->     \* one business known from the other location
         IF p = 1 THEN (IF li = 1 THEN Perms(Acme(1), Cord, Dyer) ELSE { <<Acme(2)>> })
         ELSE { <<>> }
    [] e = "merge" ->        \* at most one business per page
         IF p \in 1..MaxMergePages THEN SeqsUpTo(DedupRaws(li), 1) ELSE { <<>> }
    [] e = "sched" ->        \* one business, on the first page of every search
         IF p = 1 THEN { <<>>, <<Bolt>>, <<Dyer>> } ELSE { <<>> }

NoPage == [get |-> "raises", title |-> "", text |-> "", items |-> <<>>]
Mailto(a) == [kind |-> "mailto", addr |-> a, cls |-> FALSE]
PlainPage(t, its) == [get |-> "ok", title |-> "Home", text |-> t, items |-> its]
NoContact == [k \in 1..5 |-> NoPage]

BlockedPage == PlainPage("Sorry, you have been blocked", <<>>)
CloudflarePage == PlainPage("Attention Required! | Cloudflare Ray ID: 7d1", <<>>)
EmptyPage == PlainPage("Biz Inc", <<>>)
MailtoPage == PlainPage("Biz Inc", <<Mailto("info@biz.io")>>)
DeadSite == [root |-> NoPage, contact |-> NoContact]

\* detail pages met by the pipeline runs
DetailPages(e) ==
  CASE e = "dedup" -> { BlockedPage }
    [] e = "blocks" -> { CloudflarePage, EmptyPage }
    [] e = "repeat" -> { BlockedPage, EmptyPage, MailtoPage }
    [] e = "scenario" ->     \* also a page whose first address is a placeholder
         { EmptyPage,
           PlainPage("Biz Inc", <<Mailto("x@example.com"), Mailto("info@biz.io")>>) }
    [] e = "merge" -> { EmptyPage, MailtoPage }
    [] e = "sched" -> { EmptyPage }

\* company websites met by the pipeline runs
Sites(e) ==
  IF e = "repeat" THEN { DeadSite, [root |-> MailtoPage, contact |-> NoContact] }
  ELSE { DeadSite }

\* text of the result pages that list no business: nothing, a block page of
\* the directory, a page that merely has the word in an advertisement
ResultTexts(e) ==
  IF e = "scenario"
  THEN {"", "Sorry, you have been blocked", "Blocked drains cleared fast"}
  ELSE {""}

\* Failing navigation attempts and raising calls the runs meet: none in the
\* runs that feed the utilities; attempts that fail before one that works
\* in the runs of envs "repeat" and "scenario"; a restart that fails where
\* restarts happen
NavFails(e) ==
  CASE e \in {"merge", "sched"} -> {0}
    [] e \in {"repeat", "scenario"} -> 0..MAX_RETRIES
    [] OTHER -> {0, MAX_RETRIES}
FetchFaults(e) == IF e = "blocks" THEN {"none", "create"} ELSE {"none"}
PersistFaults(e) ==
  CASE e \in {"merge", "blocks"} -> {"none"}
    [] e = "sched" -> {"none", "save"}
    [] OTHER -> {"none", "save", "create"}

AllRaws ==
  DedupRaws(1) \cup DedupRaws(2) \cup { Dyer }
    \cup { BlockRaw(p, s) : p \in 1..(MaxBlockPages + 1), s \in {"a", "b"} }

\* The parser and the cascade are functions of the markup alone: their values
\* on the markup the runs can meet, computed once.
ParsedFragments ==
  Table([v \in Variants |-> Table([raw \in AllRaws |-> page_data_of(v, raw)])])
ExtractedEmails ==
  Table([v \in Variants |->
           Table([x \in (UNION { DetailPages(e) : e \in Envs })
                           \X { r.web : r \in AllRaws }
                           \X (UNION { Sites(e) : e \in Envs }) |->
                    extract_email_from_detail(v, x[1], x[2], x[3])])])
FilterVerdicts ==
  Table([raw \in AllRaws |-> Strip(raw.name) # "" /\ WebsiteFilter(raw.web)])
NamedFragments == Table([raw \in AllRaws |-> Strip(raw.name) # ""])

\* get_listings_from_page: the parsed listings of the fragments displayed
RECURSIVE get_listings_from_page(_, _)
get_listings_from_page(v, content) ==
  IF content = <<>> THEN <<>>
  ELSE ParsedFragments[v][Head(content)] \o get_listings_from_page(v, Tail(content))

----------------------------------------------------------------------------
(* Utilities: merge_all_files and the export of the leads with an email *)

\* the paths of the derived artifacts, relative to OUTPUT_DIR
merged_path(v) ==
  IF v = "b2b" THEN "yp_b2b_ALL_LEADS_MERGED.xlsx" ELSE v \o "_ALL_LEADS_MERGED.xlsx"
emails_path(v) ==
  IF v = "b2b" THEN "yp_b2b_LEADS_WITH_EMAILS.xlsx" ELSE v \o "_HOT_LEADS_WITH_EMAILS.xlsx"

\* glob("yp_<niche>_*.xlsx"); yp_5_janitor then drops the names that contain
\* "MERGED", "EMAILS" or "HOT"
merge_files(v, dir) ==
  { f \in DOMAIN dir :
      /\ StartsWith(f, "yp_" \o v \o "_")
      /\ EndsWith(f, ".xlsx")
      /\ v = "janitor" => ~AnyIn(<<"MERGED", "EMAILS", "HOT">>, f) }

\* glob returns the names in the order the file system lists them: any order
Orders(S) ==
  { o \in [1..Cardinality(S) -> S] : \A i, j \in 1..Cardinality(S) : i # j => o[i] # o[j] }

\* what one file adds to all_leads: the body of the try block.  In
\* yp_5_janitor is_valid_website raises on a NaN cell and the file is skipped.
merge_read(v, rows) ==
  LET recs == read_excel(rows)
  IN  IF v = "b2b" THEN recs
      ELSE IF \E k \in 1..Len(recs) : RaisesOnStr(Get(recs[k], WebCol(v), "")) THEN <<>>
      ELSE SelectValid(v, recs)

\* all_leads after the loop over the files, from file number k on
RECURSIVE merge_gather(_, _, _, _)
merge_gather(v, dir, order, k) ==
  IF k > Len(order) THEN <<>>
  ELSE merge_read(v, dir[order[k]]) \o merge_gather(v, dir, order, k + 1)

\* generate_lead_id raises in the dedupe loop (yp_b2b_warehouse_scraper calls
\* .lower() / .strip() on the cell values as they are)
merge_raises(v, leads) ==
  /\ v = "b2b"
  /\ \E k \in 1..Len(leads) :
       \/ RaisesOnStr(Get(leads[k], NameCol, ""))
       \/ RaisesOnStr(Get(leads[k], PhoneCol(v), ""))

\* the dedupe loop: the first lead of each key is kept
RECURSIVE merge_unique(_, _, _)
merge_unique(v, leads, seen) ==
  IF leads = <<>> THEN <<>>
  ELSE LET key == generate_lead_id(Get(Head(leads), NameCol, ""),
                                   Get(Head(leads), PhoneCol(v), ""))
       IN  IF key \in seen THEN merge_unique(v, Tail(leads), seen)
           ELSE <<Head(leads)>> \o merge_unique(v, Tail(leads), seen \cup {key})

\* the rows a DataFrame of records gives in the workbook, renumbered
numbered_rows(v, recs) ==
  add_checkboxes(v,
    [k \in 1..Len(recs) |->
       [c \in DOMAIN recs[k] |-> IF c = "#" THEN k ELSE ToCell(recs[k][c])]])

\* merge_all_files: the directory after the call, with the files read in `order`
merge_all_files(v, dir, order) ==
  LET all == merge_gather(v, dir, order, 1)
  IN  IF order = <<>> \/ all = <<>> \/ merge_raises(v, all) THEN dir
      ELSE (merged_path(v) :> numbered_rows(v, merge_unique(v, all, {}))) @@ dir

\* export_hot_leads / export_with_emails_only: the directory after the call
export_hot_leads(v, dir) ==
  IF merged_path(v) \notin DOMAIN dir THEN dir
  ELSE LET recs == read_excel(dir[merged_path(v)])
           hot == SelectSeq(recs, LAMBDA r : r[EmailCol(v)] # NaN /\ r[EmailCol(v)] # "")
       IN  (emails_path(v) :> numbered_rows(v, hot)) @@ dir

----------------------------------------------------------------------------
(* What the properties speak about *)

\* the normalized (company name, phone) pair of the specification's Identity
NormKey(name, phone) == <<Lower(Strip(name)), Strip(phone)>>
RowKey(v, row) == NormKey(ToCell(row[NameCol]), ToCell(row[PhoneCol(v)]))
StoredKeys(v, dir) ==
  UNION { { RowKey(v, dir[f][k]) : k \in 1..Len(dir[f]) } : f \in DOMAIN dir }
LeadKey(v, lead) == NormKey(lead[NameCol], lead[PhoneCol(v)])
NoDupKeys(v, rows) ==
  \A i, j \in 1..Len(rows) : i # j => RowKey(v, rows[i]) # RowKey(v, rows[j])
\* the artifact's rows hold the lead (or the row read from an artifact)
LeadCols(v) == {NameCol, PhoneCol(v), WebCol(v), EmailCol(v)}
HoldsLead(v, rows, lead) ==
  \E k \in 1..Len(rows) : \A c \in LeadCols(v) : rows[k][c] = ToCell(lead[c])
\* the rows of the artifact of the task last started
TaskRows == IF obs.file \in DOMAIN files THEN files[obs.file] ELSE <<>>

ObsInit ==
  [ step |-> "init",        \* the last step taken
    file |-> "",            \* the artifact of the task last started
    term |-> "",            \* search term of the task last started
    location |-> "",        \* location of the task last started
    url |-> "",             \* address the last LoadPage gave to driver.get
    shown |-> <<>>,         \* what the directory has served to this run, page by page
                            \* (kept in env "merge")
    rerun |-> FALSE,        \* the run before was a run of the same task that returned
    before |-> <<>>,        \* what the directory served to that run
    page |-> 0,             \* the page number the last step worked on
    persisted |-> <<>>,     \* leads accepted in this run on pages whose save is done
    fetched |-> <<>>,       \* leads of this run the email extraction was called for
    hit |-> FALSE,          \* the last extraction was the fifth blocked one counted
    exit |-> "none",        \* how the last task run ended: "returned" | "caught" | "raised"
    fault |-> "none",       \* call that raised in the last step: "save" | "create"
    flush |-> "none",       \* save of the except handler: "written" | "failed"
    accumulated |-> <<>>,   \* all_leads when the exception reached the handler
    used_live |-> TRUE,     \* the session the last step worked with was live
    text |-> "",            \* text of the result page last loaded
    verdict |-> "none",     \* what the last LoadPage took the page for
    scope_files |-> {},     \* files read for the global scope when the task started
    inputs |-> {},          \* files the last merge read
    order |-> <<>>,         \* the same, in the order they were read
    own_file |-> FALSE,     \* the task's artifact existed when the run started
    start_keys |-> {},      \* normalized pairs stored in any artifact at task start
    start_rows |-> <<>>,    \* rows of the task's own artifact at task start
    nav |-> "none",         \* navigation of the last LoadPage: "ok" | "failed"
    site_fails |-> 0,       \* attempts the site would have failed before serving the page
    attempts |-> 0,         \* navigation attempts the last LoadPage made
    delays |-> 0,           \* retry delays the last LoadPage slept
    fragments |-> 0,        \* result fragments on the page last parsed
    qualifying |-> 0,       \* of these, named ones whose website passes the filter
    filtered |-> 0,         \* of these, named ones whose website fails the filter
    parsed |-> 0,           \* listings parse_listing returned
    in_global |-> 0,        \* of these, identities in the global scope
    in_scope |-> 0,         \* of these, identities in the global or local scope
    accepted |-> 0,         \* listings accepted from the page
    saved |-> FALSE,        \* the last step wrote the artifact
    ended |-> FALSE,        \* the last step ended the task
    next_page |-> 0,        \* page number the last step moved on to (0: none)
    result |-> "",          \* result of the last email extraction
    restarted |-> FALSE,    \* the last extraction forced a session restart
    old_driver |-> <<0, 0>>,      \* the session that served the last extraction
    consec |-> 0,           \* blocked results in a row, up to the last extraction
    since |-> 0 ]           \* blocked results since task start, counted in fives

----------------------------------------------------------------------------
(* Dedup store: filtering one page *)

\* the loop `for listing in page_listings` of scrape_search: every accepted
\* identity joins local_ids at once
RECURSIVE FilterDupesLoop(_, _, _, _)
FilterDupesLoop(v, listings, existing, local) ==
  IF listings = <<>> THEN [new |-> <<>>, local |-> local]
  ELSE LET l == Head(listings)
           fresh == l[IdCol(v)] \notin existing /\ l[IdCol(v)] \notin local
           rest == FilterDupesLoop(v, Tail(listings), existing,
                                   IF fresh THEN local \cup {l[IdCol(v)]} ELSE local)
       IN  [new |-> (IF fresh THEN <<l>> ELSE <<>>) \o rest.new, local |-> rest.local]

\* yp_6_safety.py filters the whole page first and adds the identities after
FilterDupesBatch(v, listings, existing, local) ==
  LET new == SelectSeq(listings,
                 LAMBDA l : l[IdCol(v)] \notin existing /\ l[IdCol(v)] \notin local)
  IN  [new |-> new, local |-> local \cup { new[k][IdCol(v)] : k \in 1..Len(new) }]

filter_dupes(v, listings, existing, local) ==
  IF v = "safety" THEN FilterDupesBatch(v, listings, existing, local)
  ELSE FilterDupesLoop(v, listings, existing, local)

----------------------------------------------------------------------------
(* Loading the task's own artifact at the start of scrape_search / scrape *)

\* the try block around read_excel raises and is abandoned
OwnLoadRaises(v, recs) ==
  \E k \in 1..Len(recs) :
     IF v = "b2b"
     THEN RaisesOnStr(Get(recs[k], NameCol, "")) \/ RaisesOnStr(Get(recs[k], "Phone Number", ""))
     ELSE RaisesOnStr(Get(recs[k], WebCol(v), ""))

\* existing_file_leads after a try block that ran to its end
existing_file_leads(v, rows) ==
  LET recs == read_excel(rows)
      kept == IF v = "b2b" THEN recs ELSE SelectValid(v, recs)
  IN  [k \in 1..Len(kept) |->
         (IdCol(v) :> generate_lead_id(Get(kept[k], NameCol, ""),
                                       Get(kept[k], PhoneCol(v), "")))
         @@ kept[k]]

----------------------------------------------------------------------------
(* The pipeline: scrape_search (janitor, b2b) and scrape (safety) *)

Count(seq, P(_)) == Len(SelectSeq(seq, P))

\* the new session is created, but `driver` keeps referring to the old one
CreateDriverKeepsOld(quit) ==
  /\ created' = created + 1
  /\ driver' = driver
  /\ live' = (live \ quit) \cup {<<runs, created + 1>>}

\* create_driver(): a new session, which `driver` then refers to
NoDriver == <<0, 0>>
CreateDriver(quit) ==
  /\ created' = created + 1
  /\ driver' = <<runs, created + 1>>
  /\ live' = (live \ quit) \cup {<<runs, created + 1>>}

\* the locals of a finished call
ClearLocals ==
  /\ location_index' = 0
  /\ output_file' = ""
  /\ existing_ids' = {}
  /\ all_leads' = <<>>
  /\ local_ids' = {}
  /\ new_listings' = <<>>
  /\ idx' = 0
  /\ page' = 0
  /\ blocked_count' = 0
  /\ new_leads_count' = 0
  /\ held' = <<>>

\* the page loop is left (break, or range exhausted): finally quits the
\* session and the call returns
Return ==
  /\ pc' = "idle"
  /\ live' = live \ {driver}
  /\ driver' = NoDriver
  /\ created' = 0
  /\ ClearLocals

\* run_single_search / one iteration of the run loops: load the global scope,
\* then scrape_search up to the first page load
StartTask(ti, li) ==
  /\ pc = "idle"
  /\ runs < RunBudget(env)
  /\ LET f == get_output_filename(variant, SEARCH_TERMS(variant)[ti], LOCATIONS[li])
         exists == f \in DOMAIN files
         raises == exists /\ OwnLoadRaises(variant, read_excel(files[f]))
         leads == IF exists THEN existing_file_leads(variant, files[f]) ELSE <<>>
         ob == [ObsInit EXCEPT !.step = "start", !.own_file = exists, !.file = f,
                               !.term = SEARCH_TERMS(variant)[ti],
                               !.location = LOCATIONS[li],
                               !.rerun = /\ env = "merge"
                                         /\ obs.file = f
                                         /\ obs.step \in {"load", "persist"}
                                         /\ obs.exit = "returned",
                               !.before = obs.shown,
                               !.scope_files = listed_xlsx(files),
                               !.start_keys = StoredKeys(variant, files),
                               !.start_rows = IF exists THEN files[f] ELSE <<>>]
     IN  /\ runs' = runs + 1
         /\ faults' = 0
         /\ IF raises
            THEN \* leads without "_lead_id": the set comprehension raises KeyError
                 \* after create_driver(), outside the try block
                 /\ pc' = "idle"
                 /\ created' = 0
                 /\ live' = live \cup {<<runs + 1, 1>>}
                 /\ driver' = NoDriver
                 /\ ClearLocals
                 /\ obs' = [ob EXCEPT !.exit = "raised", !.ended = TRUE]
            ELSE /\ pc' = "load"
                 /\ created' = 1
                 /\ driver' = <<runs + 1, 1>>
                 /\ live' = live \cup {<<runs + 1, 1>>}
                 /\ location_index' = li
                 /\ output_file' = f
                 /\ existing_ids' = load_all_existing_lead_ids(variant, files)
                 /\ all_leads' = leads
                 /\ local_ids' = { leads[k][IdCol(variant)] : k \in 1..Len(leads) }
                 /\ new_listings' = <<>>
                 /\ idx' = 0
                 /\ page' = START_PAGE
                 /\ blocked_count' = 0
                 /\ new_leads_count' = 0
                 /\ held' = <<>>
                 /\ obs' = ob
  /\ UNCHANGED <<variant, env, files, em, calls>>

\* `for page in range(START_PAGE, MAX_PAGES + 1)`: the loop variable stays
\* where it is
same_page(p) == p

\* `for page in range(START_PAGE, MAX_PAGES + 1)`: the value after p
next_page(p) == p + 1

\* The navigation of one page.  `fails` is the number of attempts the site
\* lets fail before it serves the page.  yp_5_janitor and
\* yp_b2b_warehouse_scraper loop over range(MAX_RETRIES) and sleep after a
\* failed attempt that is not the last; yp_6_safety makes a single attempt.
navigate(v, fails) ==
  LET tries == IF v = "safety" THEN 1 ELSE MAX_RETRIES
      attempts == IF fails < tries THEN fails + 1 ELSE tries
  IN  [ok |-> fails < tries, attempts |-> attempts,
       delays |-> IF v = "safety" THEN 0 ELSE attempts - 1]

\* `except Exception as e:` around the page loop.  yp_5_janitor and
\* yp_b2b_warehouse_scraper save all_leads if there are any (the save works or
\* raises in its turn), yp_6_safety only prints the error.
handler(v, leads, path, dir, writes) ==
  IF v = "safety" \/ leads = <<>> THEN [files |-> dir, flush |-> "none"]
  ELSE IF writes THEN [files |-> save_leads_to_excel(v, leads, path, dir), flush |-> "written"]
  ELSE [files |-> dir, flush |-> "failed"]

\* the handler's save is reached, so that its outcome is an input
handler_saves(v, leads) == v # "safety" /\ leads # <<>>

\* What the page loop takes a loaded result page for.  The markup is looked
\* at by get_listings_from_page only: a page without listings is the end of
\* the results, whatever its text.
page_verdict(v, text, page_listings) ==
  IF page_listings = <<>> THEN "end of results" ELSE "listings"

\* the task is ended as soon as a page brings nothing new
breaks_without_new(page_listings, new) == new = <<>>

\* `if not page_listings: ... break`
breaks(page_listings, new) == page_listings = <<>>

\* one iteration of the page loop up to the email loop: navigation with its
\* retries, get_listings_from_page, the end-of-results test, the dedup filter
LoadPage(fails, content, text) ==
  /\ pc = "load"
  /\ ~navigate(variant, fails).ok => content = <<>> /\ faults < MaxNavFailures
  /\ text # "" => content = <<>> /\ navigate(variant, fails).ok
  /\ faults' = IF navigate(variant, fails).ok THEN faults ELSE faults + 1
  /\ LET v == variant
         went == navigate(v, fails)
         nav == IF went.ok THEN "ok" ELSE "failed"
         skipped == v = "safety" /\ nav = "failed"      \* except: continue
         shown == IF nav = "ok" THEN content ELSE held  \* what the session displays
         page_listings == IF skipped THEN <<>> ELSE get_listings_from_page(v, shown)
         f == filter_dupes(v, page_listings, existing_ids, local_ids)
         ends == \/ ~skipped /\ breaks(page_listings, f.new)        \* break
                 \/ (skipped \/ f.new = <<>>) /\ page >= MAX_PAGES(v) \* range exhausted
         continues == ~ends /\ (skipped \/ f.new = <<>>)            \* continue
         ob == [obs EXCEPT
                  !.step = "load", !.nav = nav, !.page = page, !.hit = FALSE,
                  !.used_live = driver \in live,
                  !.url = task_url(obs.term, LOCATIONS[location_index], page),
                  !.shown = IF env # "merge" THEN @
                            ELSE Append(@, IF nav = "ok" THEN content
                                           ELSE <<[name |-> "", phone |-> "", web |-> "failed"]>>),
                  !.text = text,
                  !.verdict = IF skipped THEN "none"
                              ELSE page_verdict(v, text, page_listings),
                  !.site_fails = fails, !.attempts = went.attempts,
                  !.delays = went.delays,
                  !.fragments = IF skipped THEN 0 ELSE Len(shown),
                  !.qualifying = IF skipped THEN 0 ELSE
                      Count(shown, LAMBDA r : FilterVerdicts[r]),
                  !.filtered = IF skipped THEN 0 ELSE
                      Count(shown, LAMBDA r : NamedFragments[r] /\ ~FilterVerdicts[r]),
                  !.parsed = Len(page_listings),
                  !.in_global = Count(page_listings, LAMBDA l : l[IdCol(v)] \in existing_ids),
                  !.in_scope = Count(page_listings,
                                 LAMBDA l : l[IdCol(v)] \in existing_ids \cup local_ids),
                  !.accepted = IF skipped \/ page_listings = <<>> THEN 0 ELSE Len(f.new),
                  !.saved = FALSE, !.ended = ends,
                  !.exit = IF ends THEN "returned" ELSE @,
                  !.next_page = IF continues THEN next_page(page) ELSE 0,
                  !.result = "", !.restarted = FALSE]
     IN  /\ obs' = ob
         /\ IF ends THEN Return
            ELSE /\ pc' = IF continues THEN "load" ELSE "fetch"
                 /\ page' = IF continues THEN next_page(page) ELSE page
                 /\ local_ids' = IF skipped THEN local_ids ELSE f.local
                 /\ new_listings' = IF continues THEN <<>> ELSE f.new
                 /\ idx' = IF continues THEN 0 ELSE 1
                 /\ held' = IF skipped THEN held ELSE shown
                 /\ UNCHANGED <<location_index, output_file, existing_ids, all_leads,
                                blocked_count, new_leads_count, driver, live, created>>
  /\ UNCHANGED <<variant, env, files, runs, em, calls, sched>>

\* a result that is not blocked resets the counter
CountConsecutiveBlocks(email, count) == IF email = BLOCKED THEN count + 1 ELSE 0

\* blocked_count after the result of one extraction
CountBlocks(email, count) == IF email = BLOCKED THEN count + 1 ELSE count

\* the test lets one more blocked result pass
TooManyBlocksLate(v, email, count) == email = BLOCKED /\ count > BlockThreshold

\* the test `blocked_count >= 5`: yp_6_safety.py makes it after every
\* extraction, the others in the branch of a blocked result
TooManyBlocks(v, email, count) ==
  IF v = "safety" THEN count >= BlockThreshold
  ELSE email = BLOCKED /\ count >= BlockThreshold

\* one iteration of the email loop.  `fault` tells whether create_driver()
\* raises when the session is restarted, `writes` whether the save of the
\* except handler works.
FetchEmail(detail, site, fault, writes) ==
  /\ pc = "fetch"
  /\ LET v == variant
         lead == new_listings[idx]
         email == ExtractedEmails[v][<<detail, Get(lead, WebCol(v), ""), site>>]
         count == CountBlocks(email, blocked_count)
         restart == TooManyBlocks(v, email, count)
         fifth == email = BLOCKED /\ obs.since + 1 = BlockThreshold
         h == handler(v, all_leads, output_file, files, writes)
         ob == [obs EXCEPT
                  !.step = "fetch", !.page = page, !.result = email,
                  !.fetched = Append(@, lead),
                  !.restarted = restart, !.old_driver = driver, !.hit = fifth,
                  !.used_live = driver \in live,
                  !.consec = IF email = BLOCKED THEN @ + 1 ELSE 0,
                  !.since = IF fifth THEN 0 ELSE IF email = BLOCKED THEN @ + 1 ELSE @,
                  !.saved = FALSE, !.ended = FALSE, !.next_page = 0]
     IN  /\ fault \in FetchFaults(env)
         /\ fault = "create" => restart
         /\ ~writes => fault = "create" /\ handler_saves(v, all_leads)
         /\ IF fault = "create"
            THEN \* driver.quit(), then create_driver() raises: handler, finally
                 /\ files' = h.files
                 /\ obs' = [ob EXCEPT !.fault = "create", !.flush = h.flush,
                                      !.accumulated = all_leads,
                                      !.saved = h.flush = "written", !.ended = TRUE,
                                      !.exit = IF h.flush = "failed" THEN "raised"
                                               ELSE "caught"]
                 /\ Return
            ELSE /\ new_listings' =
                      IF email # BLOCKED /\ email # ""
                      THEN [new_listings EXCEPT ![idx] = [lead EXCEPT ![EmailCol(v)] = email]]
                      ELSE new_listings
                 /\ blocked_count' = IF restart THEN 0 ELSE count
                 /\ IF restart THEN CreateDriver({driver})
                    ELSE UNCHANGED <<driver, live, created>>
                 /\ idx' = IF idx < Len(new_listings) THEN idx + 1 ELSE 0
                 /\ pc' = IF idx < Len(new_listings) THEN "fetch" ELSE "persist"
                 /\ held' = <<>>
                 /\ obs' = ob
                 /\ UNCHANGED <<files, location_index, output_file, existing_ids,
                                all_leads, local_ids, page, new_leads_count>>
  /\ UNCHANGED <<variant, env, runs, faults, em, calls, sched>>

\* the accumulator forgets the leads of the earlier pages
extend_replacing(leads, new) == new

\* all_leads.extend(new_listings)
extend(leads, new) == leads \o new

\* the rest of the iteration: extend the accumulator, save, restart the
\* session and go to the next page.  `fault` tells which call raises: the
\* save ("save", nothing is written), create_driver() of the restart
\* ("create"), or none; `writes` whether the save of the except handler works.
Persist(fault, writes) ==
  /\ pc = "persist"
  /\ LET v == variant
         leads == extend(all_leads, new_listings)
         more == page < MAX_PAGES(v)
         saved == IF fault = "save" THEN files
                  ELSE save_leads_to_excel(v, leads, output_file, files)
         h == handler(v, leads, output_file, saved, writes)
         ob == [obs EXCEPT !.step = "persist", !.page = page, !.hit = FALSE,
                           !.persisted = IF fault = "save" THEN @ ELSE @ \o new_listings,
                           !.result = "", !.restarted = FALSE]
     IN  /\ fault \in PersistFaults(env)
         /\ fault = "create" => more /\ RESTART_DRIVER_EACH_PAGE
         /\ ~writes => fault # "none" /\ handler_saves(v, leads)
         /\ files' = IF fault = "none" THEN saved ELSE h.files
         /\ obs' = IF fault = "none"
                   THEN [ob EXCEPT !.saved = TRUE, !.ended = ~more,
                                   !.exit = IF more THEN @ ELSE "returned",
                                   !.next_page = IF more THEN next_page(page) ELSE 0]
                   ELSE [ob EXCEPT !.fault = fault, !.flush = h.flush,
                                   !.accumulated = leads,
                                   !.saved = fault = "create" \/ h.flush = "written",
                                   !.ended = TRUE, !.next_page = 0,
                                   !.exit = IF h.flush = "failed" THEN "raised"
                                            ELSE "caught"]
         /\ IF more /\ fault = "none"
            THEN /\ all_leads' = leads
                 /\ new_leads_count' = new_leads_count + Len(new_listings)
                 /\ new_listings' = <<>>
                 /\ idx' = 0
                 /\ page' = next_page(page)
                 /\ pc' = "load"
                 /\ held' = <<>>
                 /\ IF RESTART_DRIVER_EACH_PAGE THEN CreateDriver({driver})
                    ELSE UNCHANGED <<driver, live, created>>
                 /\ UNCHANGED <<location_index, output_file, existing_ids, local_ids,
                                blocked_count>>
            ELSE Return
  /\ UNCHANGED <<variant, env, runs, faults, em, calls, sched>>

\* merge_all_files(), called by the user between task runs
Merge(order) ==
  /\ pc = "idle"
  /\ env = "merge"
  /\ variant # "safety"         \* yp_6_safety.py has no such function
  /\ calls < MaxUtilityCalls
  /\ order \in Orders(merge_files(variant, files))
  /\ calls' = calls + 1
  /\ files' = merge_all_files(variant, files, order)
  /\ obs' = [obs EXCEPT !.step = "merge", !.order = order,
                        !.inputs = merge_files(variant, files),
                        !.exit = IF merge_raises(variant,
                                       merge_gather(variant, files, order, 1))
                                 THEN "raised" ELSE "returned"]
  /\ UNCHANGED <<variant, env, pc, location_index, output_file, existing_ids, all_leads,
                 local_ids, new_listings, idx, page, blocked_count, new_leads_count,
                 driver, live, created, held, runs, faults, em, sched>>

\* export_hot_leads() / export_with_emails_only(), called by the user
Export ==
  /\ pc = "idle"
  /\ env = "merge"
  /\ variant # "safety"
  /\ calls < MaxUtilityCalls
  /\ calls' = calls + 1
  /\ files' = export_hot_leads(variant, files)
  /\ obs' = [obs EXCEPT !.step = "export", !.exit = "returned"]
  /\ UNCHANGED <<variant, env, pc, location_index, output_file, existing_ids, all_leads,
                 local_ids, new_listings, idx, page, blocked_count, new_leads_count,
                 driver, live, created, held, runs, faults, em, sched>>

\* Between two runs the operator opens a per-task artifact, marks its first
\* lead as contacted and writes a note.
OperatorEdit(f) ==
  /\ pc = "idle"
  /\ env = "merge"
  /\ f \in DOMAIN files \ {merged_path(variant), emails_path(variant)}
  /\ files[f][1][CheckCol(variant)] = CheckDefault(variant)
  /\ files' = [files EXCEPT ![f][1] =
                 [@ EXCEPT ![CheckCol(variant)] = IF variant = "b2b" THEN "[x]"
                                                  ELSE "Contacted",
                           !["Notes"] = "call back"]]
  /\ obs' = [obs EXCEPT !.step = "edit"]
  /\ UNCHANGED <<variant, env, pc, location_index, output_file, existing_ids, all_leads,
                 local_ids, new_listings, idx, page, blocked_count, new_leads_count,
                 driver, live, created, held, runs, faults, em, calls, sched>>

EmIdle == [phase |-> "none"]

\* one call of extract_email_from_detail / get_email
ExtractEmail ==
  /\ em.phase = "input"
  /\ em' = [em EXCEPT !.phase = "done",
                      !.result = extract_email_from_detail(variant, em.detail,
                                                           em.web, em.site)]
  /\ UNCHANGED <<variant, env, files, pc, location_index, output_file, existing_ids,
                 all_leads, local_ids, new_listings, idx, page, blocked_count,
                 new_leads_count, driver, live, created, held, runs, faults, obs, calls, sched>>

\* The run modes: run_single_search, run_batch_search, run_all_searches of
\* yp_5_janitor and yp_b2b_warehouse_scraper, the RUN_ALL switch of
\* yp_6_safety, and resume_scrape of yp_b2b_warehouse_scraper.  sched.ti and
\* sched.li are the loop variables (1-based), sched.from is what load_progress
\* returned to resume_scrape,
\* sched.more says the loops have another iteration, sched.log lists the tasks
\* the program run has started and sched.progress is the content of
\* PROGRESS_FILE, a sequence of JSON records.
SchedOff ==
  [status |-> "off", mode |-> "none", cti |-> 0, ti |-> 0, li |-> 0, more |-> FALSE,
   log |-> <<>>, progress |-> <<>>, programs |-> 0, from |-> <<>>]

\* `with open(PROGRESS_FILE, "w") as f: json.dump(progress, f)`
save_progress(content, term_idx, location_idx, status) ==
  << [term_index |-> term_idx, location_index |-> location_idx, status |-> status] >>

\* only the batch and all modes of yp_5_janitor and yp_b2b_warehouse_scraper
\* and resume_scrape call save_progress
saves_progress(v, mode) == v # "safety" /\ mode \in {"batch", "all", "resume"}

\* the loop variables after the iteration (ti, li): the inner loop is the one
\* over LOCATIONS
next_task(v, mode, ti, li) ==
  IF mode = "single" THEN [more |-> FALSE, ti |-> ti, li |-> li]
  ELSE IF li < Len(LOCATIONS) THEN [more |-> TRUE, ti |-> ti, li |-> li + 1]
  ELSE IF mode \in {"all", "resume"} /\ ti < Len(SEARCH_TERMS(v))
       THEN [more |-> TRUE, ti |-> ti + 1, li |-> 1]
  ELSE [more |-> FALSE, ti |-> ti, li |-> li]

\* a task started by the user in single mode, the first term selected
RunSingle(li) == StartTask(1, li) /\ UNCHANGED sched

\* the program is started in one of its modes; cti and cli are
\* CURRENT_TERM_INDEX and CURRENT_LOCATION_INDEX.  In mode "resume"
\* (yp_b2b_warehouse_scraper only) resume_scrape runs run_all_searches when
\* there is no progress file, and else starts its loops at the indices of the
\* record, whatever the status of the record.
RunProgram(mode, cti, cli) ==
  /\ pc = "idle"
  /\ sched.status # "running"
  /\ sched.programs < MaxPrograms
  /\ variant = "safety" => mode # "batch"     \* RUN_ALL or the selected task
  /\ mode = "resume" => variant = "b2b" /\ cti = 1 /\ cli = 1
  /\ LET progress == sched.progress        \* load_progress()
         resumes == mode = "resume" /\ progress # <<>>
     IN  sched' = [sched EXCEPT
                     !.status = "running",
                     !.mode = IF mode = "resume" /\ ~resumes THEN "all" ELSE mode,
                     !.cti = cti,
                     !.ti = IF resumes THEN progress[1].term_index
                            ELSE IF mode \in {"all", "resume"} THEN 1 ELSE cti,
                     !.li = IF resumes THEN progress[1].location_index
                            ELSE IF mode = "single" THEN cli ELSE 1,
                     !.more = TRUE, !.log = <<>>,
                     !.from = IF resumes THEN progress ELSE <<>>,
                     !.programs = @ + 1]
  /\ UNCHANGED <<variant, env, files, pc, location_index, output_file, existing_ids,
                 all_leads, local_ids, new_listings, idx, page, blocked_count,
                 new_leads_count, driver, live, created, held, runs, faults, obs, em,
                 calls>>

\* the previous call of scrape_search / scrape has returned to the run mode
Returned == sched.log = <<>> \/ obs.exit # "raised"

\* one iteration of the loops up to the call of scrape_search / scrape:
\* save_progress(ti, li), then the task starts
SchedStartTask ==
  /\ sched.status = "running"
  /\ pc = "idle"
  /\ Returned
  /\ sched.more
  /\ StartTask(sched.ti, sched.li)
  /\ LET nx == next_task(variant, sched.mode, sched.ti, sched.li)
     IN  sched' = [sched EXCEPT
                     !.status = IF obs'.exit = "raised" THEN "raised" ELSE "running",
                     !.log = Append(@, <<sched.ti, sched.li>>),
                     !.progress = IF saves_progress(variant, sched.mode)
                                  THEN save_progress(@, sched.ti, sched.li, "in_progress")
                                  ELSE @,
                     !.ti = nx.ti, !.li = nx.li, !.more = nx.more]

\* the loops are over: save_progress(..., "completed") and the program ends;
\* resume_scrape ends without it
SchedFinish ==
  /\ sched.status = "running"
  /\ pc = "idle"
  /\ Returned
  /\ ~sched.more
  /\ sched' = [sched EXCEPT
                 !.status = "done",
                 !.progress =
                    IF saves_progress(variant, sched.mode) /\ sched.mode # "resume"
                    THEN save_progress(@, IF sched.mode = "all"
                                          THEN Len(SEARCH_TERMS(variant)) ELSE sched.cti,
                                       Len(LOCATIONS), "completed")
                    ELSE @]
  /\ UNCHANGED <<variant, env, files, pc, location_index, output_file, existing_ids,
                 all_leads, local_ids, new_listings, idx, page, blocked_count,
                 new_leads_count, driver, live, created, held, runs, faults, obs, em,
                 calls>>

\* scrape_search has raised: no run mode catches the exception, the program
\* ends with it
SchedAbort ==
  /\ sched.status = "running"
  /\ pc = "idle"
  /\ ~Returned
  /\ sched' = [sched EXCEPT !.status = "raised"]
  /\ UNCHANGED <<variant, env, files, pc, location_index, output_file, existing_ids,
                 all_leads, local_ids, new_listings, idx, page, blocked_count,
                 new_leads_count, driver, live, created, held, runs, faults, obs, em,
                 calls>>

InitCommon ==
  /\ variant \in Variants
  /\ files = <<>>
  /\ pc = "idle"
  /\ location_index = 0
  /\ output_file = ""
  /\ existing_ids = {}
  /\ all_leads = <<>>
  /\ local_ids = {}
  /\ new_listings = <<>>
  /\ idx = 0
  /\ page = 0
  /\ blocked_count = 0
  /\ new_leads_count = 0
  /\ driver = NoDriver
  /\ live = {}
  /\ created = 0
  /\ held = <<>>
  /\ runs = 0
  /\ faults = 0
  /\ obs = ObsInit
  /\ calls = 0
  /\ sched = SchedOff

Init == InitCommon /\ env \in Envs /\ em = EmIdle

Next ==
  \/ \E li \in 1..Len(LOCATIONS) : RunSingle(li)
  \/ \E fails \in NavFails(env) :
       \E content \in PageContents(env, location_index, page) :
          \E text \in ResultTexts(env) : LoadPage(fails, content, text)
  \/ \E detail \in DetailPages(env) : \E site \in Sites(env) :
       \E fault \in FetchFaults(env), writes \in BOOLEAN :
          FetchEmail(detail, site, fault, writes)
  \/ \E fault \in PersistFaults(env), writes \in BOOLEAN : Persist(fault, writes)
  \/ \E order \in Orders(merge_files(variant, files)) : Merge(order)
  \/ Export
  \/ \E f \in DOMAIN files : OperatorEdit(f)

Spec == Init /\ [][Next]_vars

\* The steps of a started task.  Every external call returns, so a started
\* task keeps taking steps; whether another task is started is up to the user.
TaskStep ==
  \/ \E fails \in NavFails(env) :
       \E content \in PageContents(env, location_index, page) :
          \E text \in ResultTexts(env) : LoadPage(fails, content, text)
  \/ \E detail \in DetailPages(env) : \E site \in Sites(env) :
       \E fault \in FetchFaults(env), writes \in BOOLEAN :
          FetchEmail(detail, site, fault, writes)
  \/ \E fault \in PersistFaults(env), writes \in BOOLEAN : Persist(fault, writes)

FairSpec == Spec /\ WF_vars(TaskStep)

\* The email cascade alone, on the pages one lead can meet
TitledPage(title, its) == [get |-> "ok", title |-> title, text |-> "", items |-> its]

InitEmail ==
  LET Text(a) == [kind |-> "text", addr |-> a, cls |-> FALSE]
      EmailWebs == { "acme.com", "https://www.yelp.com/biz/acme", "N/A" }
      EmailDetails == { BlockedPage, CloudflarePage, EmptyPage, NoPage }
      EmailRoots ==
        { NoPage,
          TitledPage("Acme", <<>>),
          TitledPage("Acme", <<Mailto("info@acme.com")>>),
          TitledPage("Error 404", <<Mailto("info@acme.com")>>),
          TitledPage("Acme", <<Mailto("x@example.com"), Mailto("info@acme.com")>>),
          TitledPage("Acme", <<Text("sales@acme.com"), Mailto("x@example.com"),
                               Mailto("info@acme.com")>>),
          TitledPage("Acme", <<Mailto("x@example.com"), Mailto("office@acme")>>) }
      EmailContacts ==
        { NoContact, [k \in 1..5 |-> IF k = 1 THEN MailtoPage ELSE NoPage] }
  IN  /\ InitCommon
      /\ env = "email"
      /\ \E d \in EmailDetails, w \in EmailWebs, r \in EmailRoots, c \in EmailContacts :
            em = [phase |-> "input", detail |-> d, web |-> w,
                  site |-> [root |-> r, contact |-> c], result |-> ""]

SpecEmail == InitEmail /\ [][ExtractEmail]_vars

\* The filters and the identity function alone, on the strings below
InitFn ==
  LET FilterUrls ==
        { "", "   ", "N/A", "https://example-business.com", "acme.io",
          "https://www.Yelp.com/biz/acme", "http://acme.yp.com/",
          " https://MANTA.com/c/x " }
      EmailInputs ==
        { "", "owner", "info@wixpress.com", "Info@WixPress.com", "logo@2x.png",
          "owner@example-business.com", "info@acme.com", "x@example.com" }
      IdNames == { "Acme", " ACME ", "acme\t", "Bolt", "bolt " }
      IdPhones == { "555", " 555 ", "", "556" }
  IN  /\ InitCommon
      /\ env = "fn"
      /\ \/ \E u \in FilterUrls :
               em = [phase |-> "input", fn |-> "is_valid_website", url |-> u]
         \/ \E e \in EmailInputs :
               em = [phase |-> "input", fn |-> "is_valid_email", email |-> e]
         \/ \E n1, n2 \in IdNames, p1, p2 \in IdPhones :
               em = [phase |-> "input", fn |-> "generate_lead_id",
                     name1 |-> n1, phone1 |-> p1, name2 |-> n2, phone2 |-> p2]

\* what a call of the function leaves unchanged
FnFrame ==
  UNCHANGED <<variant, env, files, pc, location_index, output_file, existing_ids,
              all_leads, local_ids, new_listings, idx, page, blocked_count,
              new_leads_count, driver, live, created, held, runs, faults, obs, calls,
              sched>>

\* is_valid_website(url); yp_b2b_warehouse_scraper.py has no such function
ApplyWebsiteFilter ==
  /\ em.phase = "input" /\ em.fn = "is_valid_website"
  /\ variant # "b2b"
  /\ em' = [phase |-> "done", fn |-> em.fn, url |-> em.url,
            result |-> is_valid_website(variant, em.url)]
  /\ FnFrame

\* is_valid_email(email) / valid_email(e), taken as a truth value
ApplyEmailValidator ==
  /\ em.phase = "input" /\ em.fn = "is_valid_email"
  /\ em' = [phase |-> "done", fn |-> em.fn, email |-> em.email,
            result |-> is_valid_email(variant, em.email)]
  /\ FnFrame

\* generate_lead_id / gen_id on two (name, phone) pairs
ApplyIdentity ==
  /\ em.phase = "input" /\ em.fn = "generate_lead_id"
  /\ em' = [em EXCEPT !.phase = "done"]
            @@ [id1 |-> generate_lead_id(em.name1, em.phone1),
                id2 |-> generate_lead_id(em.name2, em.phone2)]
  /\ FnFrame

NextFn == ApplyWebsiteFilter \/ ApplyEmailValidator \/ ApplyIdentity

SpecFn == InitFn /\ [][NextFn]_vars

\* The run modes, on a directory that lists one business
InitSched == InitCommon /\ env = "sched" /\ em = EmIdle

NextSched ==
  \/ \E mode \in {"single", "batch", "all", "resume"} :
       \E cti \in 1..Len(SEARCH_TERMS(variant)), cli \in 1..Len(LOCATIONS) :
          RunProgram(mode, cti, cli)
  \/ SchedStartTask
  \/ SchedFinish
  \/ SchedAbort
  \/ \E content \in PageContents(env, location_index, page) : LoadPage(0, content, "")
  \/ \E detail \in DetailPages(env) : FetchEmail(detail, DeadSite, "none", TRUE)
  \/ \E fault \in PersistFaults(env), writes \in BOOLEAN : Persist(fault, writes)

SpecSched == InitSched /\ [][NextSched]_vars

----------------------------------------------------------------------------
(* Properties *)

TypeOK ==
  /\ pc \in {"idle", "load", "fetch", "persist"}
  /\ blocked_count \in 0..(BlockThreshold - 1)
  /\ pc = "idle" <=> driver = NoDriver
  /\ pc # "idle" => driver \in live

\* C1: global dedup.  No listing accepted and persisted in a task run has the
\* normalized (company name, phone) of a lead that was stored in some artifact
\* of the niche when the task started.
C1_GlobalDedup ==
  \A k \in 1..Len(obs.persisted) :
     LeadKey(variant, obs.persisted[k]) \notin obs.start_keys

\* C2: local dedup.  No identity is accepted twice within one task run, and
\* an artifact without duplicate identities at task start never holds two
\* rows with the same identity.
C2_LocalDedup ==
  /\ \A i, j \in 1..Len(obs.persisted) :
        i # j => LeadKey(variant, obs.persisted[i]) # LeadKey(variant, obs.persisted[j])
  /\ NoDupKeys(variant, obs.start_rows) => NoDupKeys(variant, TaskRows)

\* C3: every row of every artifact has a website that passes the Website Filter.
C3_RowsPassWebsiteFilter ==
  \A f \in DOMAIN files :
     \A k \in 1..Len(files[f]) : WebsiteFilter(files[f][k][WebCol(variant)])

\* C4: at every point of a task run the task's artifact holds every lead
\* accepted on a page whose save has completed, and every lead it held when
\* the task started.
C4_SavedLeadsOnDisk ==
  /\ \A k \in 1..Len(obs.persisted) : HoldsLead(variant, TaskRows, obs.persisted[k])
  /\ \A k \in 1..Len(obs.start_rows) : HoldsLead(variant, TaskRows, obs.start_rows[k])

\* a run that found leads in its artifact has saved a page and goes on
C4_Witness ==
  /\ pc = "load"
  /\ obs.step = "persist"
  /\ obs.start_rows # <<>>
  /\ obs.persisted # <<>>

\* C5: when a loaded result page yields no listing that passes the Website
\* Filter, the task ends at once: no later page is loaded and nothing is
\* saved for that page.
C5_NoQualifyingListingEndsTask ==
  (obs.step = "load" /\ obs.nav = "ok" /\ obs.qualifying = 0)
    => (obs.ended /\ pc = "idle" /\ ~obs.saved)

\* C6: a page whose parsed listings all have an identity in the global or
\* local scope adds no lead to the accumulator, writes nothing, and does not
\* end the task: the next page number is loaded, unless the page was the
\* last one the ceiling allows.
C6_AllDuplicatesPageSkipped ==
  [][ (obs'.step = "load" /\ obs'.parsed > 0 /\ obs'.in_scope = obs'.parsed)
        => /\ obs'.accepted = 0
           /\ files' = files
           /\ IF page < MAX_PAGES(variant)
              THEN /\ pc' = "load"
                   /\ page' = page + 1
                   /\ all_leads' = all_leads
                   /\ ~obs'.ended
              ELSE pc' = "idle" ]_vars

\* an all-duplicates page has just been skipped
C6_Witness ==
  /\ obs.step = "load"
  /\ obs.parsed > 0
  /\ obs.in_scope = obs.parsed
  /\ pc = "load"
  /\ page = obs.page + 1

\* C7: task ("wholesale", "queens-ny") started without an artifact of its
\* own; page 1 returns 3 listings, one fails the Website Filter and one has an
\* identity in the global scope: exactly 1 lead is in the task's artifact
\* once page 1 has been saved.
C7_ScenarioOneLead ==
  ( /\ obs.file = get_output_filename("b2b", "wholesale", "queens-ny")
    /\ ~obs.own_file
    /\ obs.step = "persist"
    /\ obs.page = 1
    /\ obs.fragments = 3
    /\ obs.filtered = 1
    /\ obs.in_global = 1 )
  => Len(TaskRows) = 1

\* the session that served the last extraction is gone, a new one is in use
\* and the block counter is 0
SessionReplaced ==
  /\ obs.restarted
  /\ blocked_count = 0
  /\ obs.old_driver \notin live
  /\ driver \in live
  /\ driver # obs.old_driver

LiveOfTask == { s \in live : s[1] = runs }

\* C11: every session created during a task has been torn down by the time
\* scrape_search / scrape has returned or raised, whatever the exit path.
C11_SessionsTornDown ==
  pc = "idle" => LiveOfTask = {}

\* C12: at most one session is live per task, and every navigation and every
\* read of a page is made on a session that is live, also after a
\* block-triggered or per-page restart and when creating the replacement
\* session fails.
C12_OneLiveSessionNoUseAfterTeardown ==
  /\ Cardinality(LiveOfTask) <= 1
  /\ obs.step \in {"load", "fetch"} => obs.used_live
  /\ pc # "idle" => driver \in live
  /\ obs.fault = "create" => pc = "idle" /\ obs.old_driver \notin live

\* creating the replacement session failed during a block-triggered restart
C12_Witness ==
  /\ obs.step = "fetch"
  /\ obs.fault = "create"
  /\ obs.restarted
  /\ pc = "idle"

\* C16: when an exception escapes the page loop, the accumulated leads are
\* written to the task's artifact before the task ends (the handler's save
\* working), and the session is torn down.
C16_ExceptionFlushesLeads ==
  (obs.fault # "none" /\ obs.flush # "failed")
    => /\ \A k \in 1..Len(obs.accumulated) :
             HoldsLead(variant, TaskRows, obs.accumulated[k])
       /\ LiveOfTask = {}
       /\ pc = "idle"

\* the per-task Output Artifacts of the niche
PerTaskFiles(v) ==
  { get_output_filename(v, SEARCH_TERMS(v)[t], LOCATIONS[l]) :
      t \in 1..Len(SEARCH_TERMS(v)), l \in 1..Len(LOCATIONS) }

\* the Merged Corpus as it is on disk
MergedRows ==
  IF merged_path(variant) \in DOMAIN files THEN files[merged_path(variant)] ELSE <<>>

\* the rows of the per-task artifacts that pass the Website Filter, in the
\* order the last merge read the artifacts (from file number k of the order on)
RECURSIVE PerTaskRowsRead(_)
PerTaskRowsRead(k) ==
  IF k > Len(obs.order) THEN <<>>
  ELSE (IF obs.order[k] \in PerTaskFiles(variant)
        THEN SelectSeq(files[obs.order[k]],
                       LAMBDA row : WebsiteFilter(row[WebCol(variant)]))
        ELSE <<>>) \o PerTaskRowsRead(k + 1)

\* C17: after a merge, every identity of the per-task artifacts is in exactly
\* one row of the Merged Corpus, that row is the first occurrence in read
\* order, and the rows are numbered 1..n.
C17_MergeKeepsOneRowPerIdentity ==
  obs.step = "merge" =>
    LET v == variant
        read == PerTaskRowsRead(1)
        \* first row of `rows` with the identity `key`
        FirstWithKey(w, rows, key) ==
          rows[CHOOSE i \in 1..Len(rows) :
                 /\ RowKey(w, rows[i]) = key
                 /\ \A j \in 1..(i - 1) : RowKey(w, rows[j]) # key]
    IN  /\ \A k \in 1..Len(read) :
             LET key == RowKey(v, read[k])
                 hits == { j \in 1..Len(MergedRows) : RowKey(v, MergedRows[j]) = key }
             IN  /\ Cardinality(hits) = 1
                 /\ \A j \in hits : \A c \in LeadCols(v) :
                       MergedRows[j][c] = FirstWithKey(v, read, key)[c]
        /\ \A j \in 1..Len(MergedRows) : MergedRows[j]["#"] = j

\* C18: the global scope of a task is built from per-task artifacts only: no
\* Merged Corpus and no has-email export is among the files read for it.
C18_ScopeFromPerTaskArtifactsOnly ==
  obs.scope_files \subseteq PerTaskFiles(variant)

\* C19: merge reads per-task artifacts only, never an earlier merged or
\* email-only export, and no row of the Merged Corpus fails the Website Filter.
C19_MergeReadsPerTaskAndFilters ==
  /\ obs.inputs \subseteq PerTaskFiles(variant)
  /\ \A j \in 1..Len(MergedRows) : WebsiteFilter(MergedRows[j][WebCol(variant)])

\* C20: the page loop applies the block heuristic of the email extraction to
\* every result page it loads, before parsing: a result page that matches
\* the heuristic is taken for a blocked page, and the heuristic gives the
\* same verdict in every pipeline variant.
C20_ResultPagesBlockChecked ==
  (obs.step = "load" /\ obs.nav = "ok") =>
    /\ is_blocked(variant, PlainPage(obs.text, <<>>)) => obs.verdict = "blocked"
    /\ \A w \in Variants :
          is_blocked(w, PlainPage(obs.text, <<>>))
            = is_blocked(variant, PlainPage(obs.text, <<>>))

\* C13: for each result page at most MAX_RETRIES navigation attempts are made,
\* every failed attempt but the MAX_RETRIES-th is followed by another attempt
\* after the delay, and no attempt follows a successful one.
C13_NavigationRetried ==
  obs.step = "load" =>
    /\ obs.attempts <= MAX_RETRIES
    /\ obs.attempts = (IF obs.site_fails < MAX_RETRIES THEN obs.site_fails + 1
                       ELSE MAX_RETRIES)
    /\ obs.delays = obs.attempts - 1
    /\ obs.nav = "ok" <=> obs.site_fails < MAX_RETRIES

\* C14: when every navigation attempt for a result page has failed, no
\* listing is parsed or accepted for that page (nothing is taken from what
\* the session still displays) and the task ends as it does for a page
\* without qualifying listings: at once and without a save.
C14_FailedPageIsEmpty ==
  (obs.step = "load" /\ obs.nav = "failed")
    => /\ obs.parsed = 0
       /\ obs.accepted = 0
       /\ obs.ended
       /\ pc = "idle"
       /\ ~obs.saved

\* C15: every task run terminates, and the result pages it loads have
\* strictly increasing page numbers within START_PAGE..MAX_PAGES, so each
\* page number is loaded at most once and at most MAX_PAGES pages are loaded,
\* whether or not a page signals the end of the results.
C15_BoundedPagesAndTermination ==
  /\ [][ obs'.step = "load"
           => /\ obs'.page > obs.page
              /\ obs'.page \in START_PAGE..MAX_PAGES(variant) ]_vars
  /\ (pc # "idle") ~> (pc = "idle")

\* a run has loaded the page at the ceiling and ended there
C15_Witness ==
  /\ obs.step = "load"
  /\ obs.page = MAX_PAGES(variant)
  /\ obs.parsed > 0
  /\ obs.ended
  /\ pc = "idle"

\* addresses of the mailto links of a page that pass the email validator
ValidMailtoAddrs(v, p) ==
  { a \in { Addrs(Mailtos(p.items))[k] : k \in 1..Len(Mailtos(p.items)) } :
      is_valid_email(v, a) }

\* the detail page is blocked, the website passes the Website Filter
BlockedWithWebsite ==
  /\ em.phase = "done"
  /\ em.detail.get = "ok"
  /\ is_blocked(variant, em.detail)
  /\ WebsiteFilter(em.web)

C22_ExistingArtifactNeverAborts ==
  (obs.step = "start" /\ obs.own_file)
    => /\ obs.exit # "raised"
       /\ pc = "load"
       /\ driver \in live

\* the tasks a program run in `mode` is to run, in order: the one selected
\* task, the selected term with every location in list order, every pair of
\* the cross product with the locations varying fastest
Scheduled(v, mode, cti, cli) ==
  LET nl == Len(LOCATIONS)
  IN  CASE mode = "single" -> << <<cti, cli>> >>
        [] mode = "batch" -> [l \in 1..nl |-> <<cti, l>>]
        [] mode = "all" -> [k \in 1..(Len(SEARCH_TERMS(v)) * nl) |->
                              <<((k - 1) \div nl) + 1, ((k - 1) % nl) + 1>>]
        [] OTHER -> <<>>

\* C23: in batch and all modes, once a task of the program run has finished
\* the progress file holds a single record, with the (term index, location
\* index) of that task and the status in_progress or completed; the status is
\* completed only when every scheduled task has finished.
C23_CheckpointAfterEveryTask ==
  (sched.mode \in {"batch", "all"} /\ sched.log # <<>> /\ pc = "idle")
    => /\ Len(sched.progress) = 1
       /\ sched.progress[1].status \in {"in_progress", "completed"}
       /\ <<sched.progress[1].term_index, sched.progress[1].location_index>>
            = sched.log[Len(sched.log)]
       /\ sched.progress[1].status = "completed"
            => (sched.status = "done" /\ sched.log = Scheduled(variant, sched.mode, sched.cti, sched.li))

\* C24: the tasks of a program run are started in the order of the schedule,
\* each at most once and only when no other task is running, and when the
\* program run has ended every scheduled task has been run exactly once.
C24_TasksSequentialExactlyOnce ==
  sched.mode \in {"none", "single", "batch", "all"} =>
  /\ sched.status # "off"
       => /\ Len(sched.log) <= Len(Scheduled(variant, sched.mode, sched.cti, sched.li))
          /\ sched.log = SubSeq(Scheduled(variant, sched.mode, sched.cti, sched.li), 1, Len(sched.log))
  /\ (sched.status = "running" /\ pc # "idle")
       => output_file = get_output_filename(variant,
                           SEARCH_TERMS(variant)[sched.log[Len(sched.log)][1]],
                           LOCATIONS[sched.log[Len(sched.log)][2]])
  /\ sched.status \in {"done", "raised"} => sched.log = Scheduled(variant, sched.mode, sched.cti, sched.li)

\* C25: the Website Filter fails closed in every variant that has one: it
\* returns false for the empty string, for a whitespace-only string, for the
\* sentinel "N/A" and for a URL whose lowercase form contains a blacklisted
\* host fragment, and true for every other URL.
C25_WebsiteFilterFailsClosed ==
  (em.phase = "done" /\ em.fn = "is_valid_website")
    => em.result = ~( \/ em.url = ""
                      \/ Strip(em.url) = ""
                      \/ em.url = "N/A"
                      \/ AnyIn(INVALID_WEBSITE_PATTERNS, Lower(em.url)) )

\* C26: the Email Validator returns false for a string without '@' and for a
\* string whose lowercase form contains a blacklisted fragment, and true for
\* every other string that contains '@'.
C26_EmailValidator ==
  (em.phase = "done" /\ em.fn = "is_valid_email")
    => em.result = ( /\ Contains("@", em.email)
                     /\ ~AnyIn(EMAIL_BLACKLIST(variant), Lower(em.email)) )

\* an address with a blacklisted fragment in upper case was rejected
C26_Witness ==
  /\ em.phase = "done" /\ em.fn = "is_valid_email"
  /\ em.email = "Info@WixPress.com"
  /\ em.result = FALSE

\* C27: two (name, phone) inputs with the same lowercase(trim(name)) and the
\* same trim(phone) have the same identity, whatever the letter case and the
\* surrounding whitespace of the name.
C27_IdentityOfNormalizedPair ==
  ( /\ em.phase = "done" /\ em.fn = "generate_lead_id"
    /\ Lower(Strip(em.name1)) = Lower(Strip(em.name2))
    /\ Strip(em.phone1) = Strip(em.phone2) )
    => em.id1 = em.id2

\* names that differ in case and whitespace got the same identity
C27_Witness ==
  /\ em.phase = "done" /\ em.fn = "generate_lead_id"
  /\ em.name1 = "Acme" /\ em.name2 = " ACME "
  /\ em.phone1 = "555" /\ em.phone2 = " 555 "
  /\ em.id1 = em.id2

\* C28: the identities a task start recomputes from the rows of the artifacts
\* are the identities computed when the leads were parsed, in the local scope
\* (the task's own artifact) and in the global scope (every artifact), also
\* for a lead whose phone is empty.
C28_IdentityStableAcrossReload ==
  LET \* the identity parse_listing computed for the lead a row was written from
      IdAtParse(v, row) == generate_lead_id(row[NameCol], row[PhoneCol(v)])
  IN
  (obs.step = "start" /\ pc = "load")
    => /\ local_ids = { IdAtParse(variant, obs.start_rows[k]) :
                          k \in 1..Len(obs.start_rows) }
       /\ existing_ids = UNION { { IdAtParse(variant, files[f][k]) :
                                     k \in 1..Len(files[f]) } : f \in DOMAIN files }

\* C29: after the save of a page, the task's artifact holds exactly the
\* leads given to the save that pass the Website Filter, in their order, with
\* '#' running from 1 to n and without any underscore-prefixed column.
C29_SaveWritesFilteredNumbered ==
  LET \* the leads given to the save whose website passes the Website Filter
      FilteredLeads ==
        SelectSeq(all_leads, LAMBDA l : WebsiteFilter(ToCell(l[WebCol(variant)])))
  IN
  (obs.step = "persist" /\ obs.saved /\ obs.fault = "none" /\ pc = "load")
    => /\ Len(TaskRows) = Len(FilteredLeads)
       /\ \A k \in 1..Len(TaskRows) :
            /\ TaskRows[k]["#"] = k
            /\ \A c \in DOMAIN TaskRows[k] : ~IsInternal(c)
            /\ k <= Len(FilteredLeads)
                 => \A c \in LeadCols(variant) :
                       TaskRows[k][c] = ToCell(FilteredLeads[k][c])

\* C30: with the per-page restart enabled, whenever a task goes on from a
\* result page it has loaded to the next one it does so with a fresh session,
\* also after a page on which every listing was a duplicate.
C30_FreshSessionPerPage ==
  [][ ( /\ RESTART_DRIVER_EACH_PAGE
        /\ pc # "idle" /\ pc' # "idle" /\ page' # page
        /\ obs'.step = "load" => obs'.nav = "ok" )
        => (driver' # driver /\ driver \notin live' /\ driver' \in live') ]_vars

\* C21: when the fetch of the detail page raises and the lead has a website
\* that passes the Website Filter, only the detail-page steps yield nothing:
\* the company-website sub-cascade is still attempted, so extraction returns
\* what the website gives.
C21_RaisingStepDegradesAlone ==
  ( /\ em.phase = "done"
    /\ em.detail.get # "ok"
    /\ is_valid_website(variant, em.web) )
    => em.result = extract_email_from_website(variant, em.web, em.site)

C32_ExtractionOncePerAcceptedLead ==
  LET v == variant
      Id(seq) == [k \in 1..Len(seq) |-> seq[k][IdCol(v)]]
      called == obs.fetched
  IN  /\ Len(obs.persisted) <= Len(called)
      /\ \A k \in 1..Len(obs.persisted) : Id(obs.persisted)[k] = Id(called)[k]
      /\ \A i, j \in 1..Len(called) : i # j => Id(called)[i] # Id(called)[j]
      /\ (pc = "fetch" /\ idx > 1) =>
            /\ Len(called) >= idx - 1
            /\ \A k \in 1..(idx - 1) :
                  Id(new_listings)[k] = Id(called)[Len(called) - (idx - 1) + k]
      /\ \A k \in 1..Len(called) :
            /\ WebsiteFilter(called[k][WebCol(v)])
            /\ LeadKey(v, called[k]) \notin obs.start_keys
            /\ \A j \in 1..(k - 1) : LeadKey(v, called[j]) # LeadKey(v, called[k])

\* C33: the email field of every lead accepted in a run is, when persisted,
\* empty or an address that passes the Email Validator; the sentinel
\* "__BLOCKED__" is in no lead's email field and in no artifact.
C33_PersistedEmailValidOrEmpty ==
  LET v == variant
      Fine(e) == e = "" \/ (e # BLOCKED /\ is_valid_email(v, e))
  IN  /\ \A k \in 1..Len(obs.persisted) : Fine(obs.persisted[k][EmailCol(v)])
      /\ \A k \in 1..Len(new_listings) : new_listings[k][EmailCol(v)] # BLOCKED
      /\ \A k \in 1..Len(all_leads) : Get(all_leads[k], EmailCol(v), "") # BLOCKED
      /\ \A f \in DOMAIN files : \A k \in 1..Len(files[f]) :
            \A c \in DOMAIN files[f][k] \ {"#"} : files[f][k][c] # BLOCKED
      /\ (obs.step = "persist" /\ obs.saved) =>
            \A k \in 1..Len(obs.persisted) :
               \E r \in 1..Len(TaskRows) :
                  /\ TaskRows[r][NameCol] = obs.persisted[k][NameCol]
                  /\ TaskRows[r][EmailCol(v)] = obs.persisted[k][EmailCol(v)]

\* a run has saved a lead with an address found behind a placeholder
C33_Witness ==
  /\ obs.step = "persist" /\ obs.saved
  /\ \E k \in 1..Len(obs.persisted) : obs.persisted[k][EmailCol(variant)] = "info@biz.io"
  /\ env = "scenario"

\* C34: after every save of a later run of a task, the task's artifact begins
\* with the leads of the pre-existing artifact that pass the Website Filter,
\* each with its fields as they were (Status and Notes as the operator left
\* them), in their order, followed by the leads the run has added.
C34_RunOnlyAppends ==
  (obs.step \in {"fetch", "persist"} /\ obs.saved /\ obs.own_file) =>
     LET v == variant
         Fields(row) == [c \in DOMAIN row \ {"#"} |-> row[c]]
         Passes(row) == WebsiteFilter(ToCell(row[WebCol(v)]))
         before == SelectSeq(obs.start_rows, Passes)
         Old(row) == \E k \in 1..Len(obs.start_rows) :
                        Fields(obs.start_rows[k]) = Fields(row)
         Added(row) == \E k \in 1..Len(obs.fetched) :
                          /\ obs.fetched[k][NameCol] = row[NameCol]
                          /\ obs.fetched[k][PhoneCol(v)] = row[PhoneCol(v)]
     IN  \E n \in 0..Len(TaskRows) :
            LET head == SelectSeq(SubSeq(TaskRows, 1, n), Passes)
            IN  /\ Len(head) = Len(before)
                /\ \A k \in 1..Len(before) : Fields(head[k]) = Fields(before[k])
                /\ \A k \in 1..n : Old(TaskRows[k])
                /\ \A k \in (n + 1)..Len(TaskRows) : Added(TaskRows[k])

\* a later run has added a lead below one the operator had marked
C34_Witness ==
  /\ obs.step = "persist" /\ obs.saved /\ obs.own_file
  /\ Len(obs.start_rows) > 0 /\ Len(obs.persisted) > 0
  /\ obs.start_rows[1]["Notes"] = "call back"
  /\ TaskRows[1]["Notes"] = "call back"

\* C35: a detail page classified as blocked never gives the result "not
\* found": the extraction returns an address recovered from the company
\* website, or the sentinel "__BLOCKED__".
C35_BlockedNeverNotFound ==
  ( /\ em.phase = "done"
    /\ em.detail.get = "ok"
    /\ is_blocked(variant, em.detail) )
    => \/ em.result = BLOCKED
       \/ /\ em.result # ""
          /\ em.result = extract_email_from_website(variant, em.web, em.site)

\* C36: in a batch or all-mode run that starts from an empty output
\* directory, the global scope of each task holds the identity of every lead
\* the earlier tasks of the run have stored, and no identity is in more than
\* one Output Artifact.
C36_NoIdentityInTwoArtifacts ==
  (sched.programs = 1 /\ sched.mode \in {"batch", "all"}) =>
     LET v == variant
         Keys(f) == { RowKey(v, files[f][k]) : k \in 1..Len(files[f]) }
     IN  /\ pc # "idle" =>
               \A key \in obs.start_keys : generate_lead_id(key[1], key[2]) \in existing_ids
         /\ \A f, g \in DOMAIN files : f # g => Keys(f) \cap Keys(g) = {}

\* C37: when a task whose earlier run has returned is run again and the
\* directory serves what it served to the earlier run, no listing is accepted
\* and the task's artifact stays as it was: no save takes place.
C37_RerunAcceptsNothing ==
  LET n == Len(obs.shown)
      same == n <= Len(obs.before) /\ obs.shown = SubSeq(obs.before, 1, n)
  IN  (obs.rerun /\ obs.step \in {"load", "fetch", "persist"} /\ same)
         => /\ obs.step = "load"
            /\ obs.accepted = 0
            /\ TaskRows = obs.start_rows

\* C38: when the progress file says completed, resume_scrape runs no task; it
\* runs a task again only when the progress file marks the task in_progress.
C38_ResumeAfterCompletedRunsNothing ==
  (sched.mode = "resume" /\ sched.log # <<>>)
     => /\ sched.from[1].status = "in_progress"
        /\ sched.log[1] = <<sched.from[1].term_index, sched.from[1].location_index>>

====
